---- MODULE Spec2Model ----
(***************************************************************************)
(* Model of buildGraph (graph/src/graphData.ts): the transaction graph     *)
(* construction of the swamp viewer.  One call of buildGraph is followed   *)
(* through its passes: identity resolution and node projection, the direct *)
(* link pass, connector detection, and connector link creation.            *)
(*                                                                         *)
(* JavaScript Maps and Sets iterate in insertion order; they are modelled  *)
(* as sequences of entries without repeated keys.  Account ids are the     *)
(* ledger's hexadecimal account identifiers: non-empty strings without     *)
(* "-".  A string is handled as the list of its "-"-separated segments, so *)
(* join("-") concatenates segment lists and split("-") lists the segments. *)
(***************************************************************************)
EXTENDS Integers, Sequences, FiniteSets, TLC

VARIABLES
  input,             \* the AccountData[] buildGraph was called with, as passed
  data,              \* the same array as the call proceeds (sorted in place)
  pc,                \* position inside buildGraph
  accountToMain,     \* Map<string, string>
  nodeMap,           \* Map<string, GraphNode>
  links,             \* GraphLink[]
  directLinks,       \* links as the direct pass left them
  hiddenLinksMap,    \* Map<string, GraphLink[]>
  connectorNodeMap,  \* Map<string, Set<string>>
  connectionMap,     \* Map<string, string[]>
  result,            \* the returned { nodes, links }
  calls,             \* how many times the caller has called buildGraph with data
  firstResult,       \* what the first of these calls returned
  loaded             \* the records the caller holds (the Graph component's data)

vars == <<input, data, pc, accountToMain, nodeMap, links, directLinks,
          hiddenLinksMap, connectorNodeMap, connectionMap, result,
          calls, firstResult, loaded>>

(***************************************************************************)
(* Bounds of the model.                                                    *)
(***************************************************************************)
MaxTxs == 2
MaxCalls == 2

(***************************************************************************)
(* Values.                                                                 *)
(***************************************************************************)
None == "undefined"

SEND == "SEND"
RECEIVE == "RECEIVE"
BOTH == "BOTH"

Accounts == {"a", "b", "c"}
AliasIds == {"p", "q"}
ExternalIds == {"e"}
Ids == Accounts \cup AliasIds \cup ExternalIds

\* Code unit order of the ids, as Array.prototype.sort compares strings.
IdRank(id) ==
  CASE id = "a" -> 1 [] id = "b" -> 2 [] id = "c" -> 3
    [] id = "e" -> 4 [] id = "p" -> 5 [] id = "q" -> 6

Categories == {"Identified", "Cex", "Foundation", "Defi", "Spammer"}

ToLowerCase(ty) ==
  CASE ty = "Identified" -> "identified"
    [] ty = "Cex" -> "cex"
    [] ty = "Foundation" -> "foundation"
    [] ty = "Defi" -> "defi"
    [] ty = "Spammer" -> "spammer"
    [] ty = "Whale" -> "whale"
    [] OTHER -> ty

DustThreshold == 10000000
ExternalSpamThreshold == 1000000

Range(s) == {s[i] : i \in 1..Len(s)}

RECURSIVE SeqsUpTo(_, _)
SeqsUpTo(S, n) ==
  IF n = 0 THEN {<<>>}
  ELSE LET shorter == SeqsUpTo(S, n - 1)
       IN  shorter \cup {Append(s, x) : s \in {t \in shorter : Len(t) = n - 1}, x \in S}

(***************************************************************************)
(* Map helpers: a Map is a sequence of [key, value] entries.               *)
(***************************************************************************)
MapHas(m, k) == \E i \in 1..Len(m) : m[i].key = k

MapGet(m, k) ==
  IF MapHas(m, k) THEN m[CHOOSE i \in 1..Len(m) : m[i].key = k].value ELSE None

MapSet(m, k, v) ==
  IF MapHas(m, k)
  THEN [i \in 1..Len(m) |-> IF m[i].key = k THEN [key |-> k, value |-> v] ELSE m[i]]
  ELSE Append(m, [key |-> k, value |-> v])

MapValues(m) == [i \in 1..Len(m) |-> m[i].value]

\* An add that keeps a main once for every time it is seen.
SetAddRepeated(s, x) == Append(s, x)

\* Set.add on a Set kept as a sequence in insertion order.
SetAdd(s, x) == IF x \in Range(s) THEN s ELSE Append(s, x)

(***************************************************************************)
(* Lines 21-30: allMap and accountToMain.                                  *)
(***************************************************************************)
RECURSIVE BuildAllMap(_, _)
BuildAllMap(d, m) ==
  IF d = <<>> THEN m
  ELSE BuildAllMap(Tail(d), MapSet(m, Head(d).account, Head(d)))

RECURSIVE SetExtras(_, _, _)
SetExtras(m, extras, main) ==
  IF extras = <<>> THEN m
  ELSE SetExtras(MapSet(m, Head(extras), main), Tail(extras), main)

RECURSIVE BuildAccountToMain(_, _)
BuildAccountToMain(d, m) ==
  IF d = <<>> THEN m
  ELSE LET acc == Head(d)
       IN  BuildAccountToMain(Tail(d),
             SetExtras(MapSet(m, acc.account, acc.account),
                       acc.extra_accounts, acc.account))

(***************************************************************************)
(* Lines 32-55: the node projection.  Array.prototype.sort is stable and   *)
(* sorts acc.transactions in place.                                        *)
(***************************************************************************)
RECURSIVE InsertByTimestamp(_, _)
InsertByTimestamp(sorted, tx) ==
  IF sorted = <<>> THEN <<tx>>
  ELSE IF tx.timestamp < Head(sorted).timestamp
       THEN <<tx>> \o sorted
       ELSE <<Head(sorted)>> \o InsertByTimestamp(Tail(sorted), tx)

RECURSIVE SortByTimestamp(_)
SortByTimestamp(txs) ==
  IF txs = <<>> THEN <<>>
  ELSE InsertByTimestamp(SortByTimestamp(SubSeq(txs, 1, Len(txs) - 1)), txs[Len(txs)])

\* Line 39.
RECURSIVE SumAmounts(_)
SumAmounts(txs) ==
  IF txs = <<>> THEN 0 ELSE Head(txs).amount + SumAmounts(Tail(txs))

NoStats == [tx_count |-> 0]

\* A comparison that forgets toLowerCase().
IsHiddenTypeCaseSensitive(ty) == ty = "defi"

\* Line 35.
IsHiddenType(ty) == ToLowerCase(ty) = "defi"

HasStats(acc) == Len(acc.transactions) > 0

\* Lines 36-47.  The dates are kept as the millisecond values handed to
\* new Date(); average_amount is total / tx_count / 100_000_000.
ExtraInfo(acc) ==
  IF HasStats(acc)
  THEN LET newTxs == SortByTimestamp(acc.transactions)
       IN  [tx_count |-> Len(acc.transactions),
            total |-> SumAmounts(acc.transactions),
            start_date |-> newTxs[1].timestamp \div 1000000,
            end_date |-> newTxs[Len(newTxs)].timestamp \div 1000000]
  ELSE NoStats

\* A projection that reads the first date with newTxs.shift(), which takes
\* the first transaction out of the record's list.
SortedRecordShift(acc) ==
  IF ~IsHiddenType(acc.ty) /\ HasStats(acc)
  THEN [acc EXCEPT !.transactions = Tail(SortByTimestamp(acc.transactions))]
  ELSE acc

\* The record as the node projection leaves it.
SortedRecord(acc) ==
  IF ~IsHiddenType(acc.ty) /\ HasStats(acc)
  THEN [acc EXCEPT !.transactions = SortByTimestamp(acc.transactions)]
  ELSE acc

RECURSIVE BuildNodeMap(_, _)
BuildNodeMap(d, m) ==
  IF d = <<>> THEN m
  ELSE LET acc == Head(d)
       IN  BuildNodeMap(Tail(d),
             IF IsHiddenType(acc.ty) THEN m
             ELSE MapSet(m, acc.account,
                         [id |-> acc.account, group |-> acc.ty,
                          extra_info |-> ExtraInfo(acc)]))

(***************************************************************************)
(* Lines 60-116: the direct link pass.                                     *)
(***************************************************************************)
\* A find that matches a link only in the orientation asked for.
FindLinkOneWay(ls, x, y) ==
  LET hits == {i \in 1..Len(ls) : ls[i].source = x /\ ls[i].target = y}
  IN  IF hits = {} THEN 0 ELSE CHOOSE i \in hits : \A j \in hits : i <= j

\* links.find(...) of lines 104-107 and 240-243: the index of the first link of
\* the unordered pair, or 0.
FindLink(ls, x, y) ==
  LET hits == {i \in 1..Len(ls) :
                 \/ ls[i].source = x /\ ls[i].target = y
                 \/ ls[i].source = y /\ ls[i].target = x}
  IN  IF hits = {} THEN 0 ELSE CHOOSE i \in hits : \A j \in hits : i <= j

\* A check that lets a transfer inside one main through.
UnknownOnly(fromMain, toMain) ==
  fromMain = None \/ toMain = None

\* A pass that takes every operation kind for a transfer.
AnyOperation(tx) == TRUE

\* A pass that leaves out the Mint transactions only.
IsNotMint(tx) == tx.op_type # "Mint"

\* Lines 62 and 124.
IsTransfer(tx) == tx.op_type = "Transfer"

\* A test that hides a transfer only when both mains are defi.
BothDefi(fromTy, toTy) == fromTy = "defi" /\ toTy = "defi"

\* Line 86.
TouchesDefi(fromTy, toTy) == fromTy = "defi" \/ toTy = "defi"

\* Line 68.
SameRootOrUnknown(fromMain, toMain) ==
  fromMain = None \/ toMain = None \/ fromMain = toMain

\* An exclusion that forgets the Foundation pairs.
ExcludedPairCexOnly(fromTy, toTy) ==
  fromTy = "cex" /\ toTy = "cex"

\* Line 99.
ExcludedPair(fromTy, toTy) ==
  \/ fromTy = "cex" /\ toTy = "cex"
  \/ fromTy = "foundation" /\ toTy = "foundation"

\* A dust filter that also drops the threshold amount itself.
LowValueSpamInclusive(fromTy, toTy, amount) ==
  fromTy = "spammer" /\ amount <= DustThreshold

\* Line 102.
LowValueSpam(fromTy, toTy, amount) ==
  fromTy = "spammer" /\ amount < DustThreshold

\* Line 77.
TxDirection(fromMain, acc) ==
  IF fromMain = acc.account THEN SEND ELSE RECEIVE

\* A merge that keeps the direction seen first.
KeepFirstDirection(existing, direction) == existing

\* Lines 112-113.
MergeDirection(existing, direction) ==
  IF existing # direction THEN BOTH ELSE existing

\* Lines 104-114.
UpsertLink(ls, link) ==
  LET i == FindLink(ls, link.source, link.target)
  IN  IF i = 0 THEN Append(ls, link)
      ELSE [ls EXCEPT ![i].direction = MergeDirection(ls[i].direction, link.direction)]

HiddenPush(hidden, main, link) ==
  MapSet(hidden, main,
         IF MapHas(hidden, main) THEN Append(MapGet(hidden, main), link) ELSE <<link>>)

\* A store that files the link under its source only.
StoreHiddenSourceOnly(hidden, nm, link, fromTy, toTy) ==
  IF fromTy # "defi" /\ MapHas(nm, link.source)
  THEN HiddenPush(hidden, link.source, link) ELSE hidden

\* Lines 85-96.
StoreHidden(hidden, nm, link, fromTy, toTy) ==
  LET h1 == IF fromTy # "defi" /\ MapHas(nm, link.source)
            THEN HiddenPush(hidden, link.source, link) ELSE hidden
  IN  IF toTy # "defi" /\ MapHas(nm, link.target)
      THEN HiddenPush(h1, link.target, link) ELSE h1

\* Lines 61-115: one transaction of one record; st = [links, hidden].
DirectTx(st, acc, tx, a2m, am, nm) ==
  IF ~IsTransfer(tx) THEN st
  ELSE
    LET fromMain == MapGet(a2m, tx.from)
        toMain == MapGet(a2m, tx.to)
    IN  IF SameRootOrUnknown(fromMain, toMain) THEN st
        ELSE IF ~MapHas(am, fromMain) \/ ~MapHas(am, toMain) THEN st
        ELSE
          LET fromTy == ToLowerCase(MapGet(am, fromMain).ty)
              toTy == ToLowerCase(MapGet(am, toMain).ty)
              link == [source |-> fromMain, target |-> toMain,
                       direction |-> TxDirection(fromMain, acc),
                       connectors |-> <<>>]
          IN  IF TouchesDefi(fromTy, toTy)
              THEN [st EXCEPT !.hidden = StoreHidden(st.hidden, nm, link, fromTy, toTy)]
              ELSE IF ExcludedPair(fromTy, toTy) THEN st
              ELSE IF LowValueSpam(fromTy, toTy, tx.amount) THEN st
              ELSE [st EXCEPT !.links = UpsertLink(st.links, link)]

RECURSIVE DirectTxs(_, _, _, _, _, _)
DirectTxs(st, acc, txs, a2m, am, nm) ==
  IF txs = <<>> THEN st
  ELSE DirectTxs(DirectTx(st, acc, Head(txs), a2m, am, nm), acc, Tail(txs), a2m, am, nm)

RECURSIVE DirectAccs(_, _, _, _, _)
DirectAccs(st, accs, a2m, am, nm) ==
  IF accs = <<>> THEN st
  ELSE DirectAccs(DirectTxs(st, Head(accs), Head(accs).transactions, a2m, am, nm),
                  Tail(accs), a2m, am, nm)

DirectPass(am, a2m, nm) ==
  DirectAccs([links |-> <<>>, hidden |-> <<>>], MapValues(am), a2m, am, nm)

(***************************************************************************)
(* Lines 120-183: connector detection.                                     *)
(***************************************************************************)
\* A test that takes every other end for an external id.
AnyOtherEnd(main) == TRUE

\* Lines 137 and 161: !toMain, !fromMain.
IsExternal(main) == main = None

\* Lines 138-153 and 162-176: whether the known main is recorded for the
\* external id of the transaction.
AddConnector(am, main, externalId, amount) ==
  /\ ~(MapHas(am, main) /\ ToLowerCase(MapGet(am, main).ty) = "spammer")
  /\ ~(/\ MapHas(am, externalId)
       /\ ToLowerCase(MapGet(am, externalId).ty) = "spammer"
       /\ amount <= ExternalSpamThreshold)

\* Lines 155-156 and 178-179.
RecordConnector(cnm, externalId, main) ==
  MapSet(cnm, externalId,
         SetAdd(IF MapHas(cnm, externalId) THEN MapGet(cnm, externalId) ELSE <<>>, main))

\* Lines 123-182: one transaction.
ConnectorTx(cnm, tx, a2m, am, nm) ==
  IF ~IsTransfer(tx) THEN cnm
  ELSE
    LET fromMain == MapGet(a2m, tx.from)
        toMain == MapGet(a2m, tx.to)
        fromIsKnown == fromMain # None /\ MapHas(nm, fromMain)
        toIsKnown == toMain # None /\ MapHas(nm, toMain)
    IN  IF fromMain # None /\ toMain # None /\ fromMain = toMain THEN cnm
        ELSE
          LET c1 == IF fromIsKnown /\ IsExternal(toMain)
                       /\ AddConnector(am, fromMain, tx.to, tx.amount)
                    THEN RecordConnector(cnm, tx.to, fromMain) ELSE cnm
          IN  IF toIsKnown /\ IsExternal(fromMain)
                 /\ AddConnector(am, toMain, tx.from, tx.amount)
              THEN RecordConnector(c1, tx.from, toMain) ELSE c1

RECURSIVE ConnectorTxs(_, _, _, _, _)
ConnectorTxs(cnm, txs, a2m, am, nm) ==
  IF txs = <<>> THEN cnm
  ELSE ConnectorTxs(ConnectorTx(cnm, Head(txs), a2m, am, nm), Tail(txs), a2m, am, nm)

RECURSIVE ConnectorAccs(_, _, _, _, _)
ConnectorAccs(cnm, accs, a2m, am, nm) ==
  IF accs = <<>> THEN cnm
  ELSE ConnectorAccs(ConnectorTxs(cnm, Head(accs).transactions, a2m, am, nm),
                     Tail(accs), a2m, am, nm)

ConnectorPass(am, a2m, nm) == ConnectorAccs(<<>>, MapValues(am), a2m, am, nm)

(***************************************************************************)
(* Lines 187-214: the connection map.                                      *)
(***************************************************************************)
\* The "-"-separated segments of an id: a hexadecimal id is one segment.
Segments(id) == <<id>>

\* Line 206: [x, y].sort().join("-"), as the segments of the joined string.
PairKey(x, y) ==
  IF IdRank(y) < IdRank(x) THEN Segments(y) \o Segments(x)
  ELSE Segments(x) \o Segments(y)

\* Line 231: key.split("-").
SplitKey(key) == key

\* Lines 207-211.
ConnectionAdd(cm, key, externalId) ==
  IF MapHas(cm, key)
  THEN MapSet(cm, key, Append(MapGet(cm, key), externalId))
  ELSE MapSet(cm, key, <<externalId>>)

RECURSIVE ConnectionPairs(_, _, _, _, _)
ConnectionPairs(cm, mainList, externalId, i, j) ==
  IF i > Len(mainList) THEN cm
  ELSE IF j > Len(mainList)
       THEN ConnectionPairs(cm, mainList, externalId, i + 1, i + 2)
       ELSE ConnectionPairs(ConnectionAdd(cm, PairKey(mainList[i], mainList[j]), externalId),
                            mainList, externalId, i, j + 1)

\* Lines 190-199.
SkipConnector(am, externalId, mainAccounts) ==
  \/ Len(mainAccounts) <= 1
  \/ MapHas(am, externalId) /\ ToLowerCase(MapGet(am, externalId).ty) = "defi"

RECURSIVE BuildConnectionMap(_, _, _)
BuildConnectionMap(cm, cnm, am) ==
  IF cnm = <<>> THEN cm
  ELSE LET e == Head(cnm)
       IN  BuildConnectionMap(
             IF SkipConnector(am, e.key, e.value) THEN cm
             ELSE ConnectionPairs(cm, e.value, e.key, 1, 2),
             Tail(cnm), am)

(***************************************************************************)
(* Lines 218-259: links for the connector connections.                     *)
(***************************************************************************)
\* Lines 220-227.
ValidExternalIds(am, externalIds) ==
  SelectSeq(externalIds,
            LAMBDA e : ~(MapHas(am, e) /\ ToLowerCase(MapGet(am, e).ty) = "spammer"))

\* Lines 234-237.
ExcludedConnection(am, mainA, mainB) ==
  /\ MapHas(am, mainA)
  /\ MapHas(am, mainB)
  /\ ExcludedPair(ToLowerCase(MapGet(am, mainA).ty), ToLowerCase(MapGet(am, mainB).ty))

\* A connector pass that leaves a pair alone once it has a link.
AttachOnlyNew(ls, mainA, mainB, valid) ==
  IF \E i \in 1..Len(ls) : {ls[i].source, ls[i].target} = {mainA, mainB}
  THEN ls
  ELSE Append(ls, [source |-> mainA, target |-> mainB,
                   direction |-> SEND, connectors |-> valid])

\* A connector pass that turns the link it finds to BOTH.
AttachAndPromote(ls, mainA, mainB, valid) ==
  LET i == FindLink(ls, mainA, mainB)
  IN  IF i # 0
      THEN [ls EXCEPT ![i].connectors = ls[i].connectors \o valid,
                      ![i].direction = BOTH]
      ELSE Append(ls, [source |-> mainA, target |-> mainB,
                       direction |-> SEND, connectors |-> valid])

\* Lines 240-258.
AttachConnectors(ls, mainA, mainB, valid) ==
  LET i == FindLink(ls, mainA, mainB)
  IN  IF i # 0
      THEN [ls EXCEPT ![i].connectors = ls[i].connectors \o valid]
      ELSE Append(ls, [source |-> mainA, target |-> mainB,
                       direction |-> SEND, connectors |-> valid])

\* Lines 218-259: one entry of connectionMap.
ConnectionLink(ls, entry, am) ==
  LET valid == ValidExternalIds(am, entry.value)
      mainA == SplitKey(entry.key)[1]
      mainB == SplitKey(entry.key)[2]
  IN  IF valid = <<>> THEN ls
      ELSE IF ExcludedConnection(am, mainA, mainB) THEN ls
      ELSE AttachConnectors(ls, mainA, mainB, valid)

RECURSIVE ConnectionLinks(_, _, _)
ConnectionLinks(ls, cm, am) ==
  IF cm = <<>> THEN ls
  ELSE ConnectionLinks(ConnectionLink(ls, Head(cm), am), Tail(cm), am)

(***************************************************************************)
(* Lines 16-263: buildGraph, pass by pass.  allMap holds the records of    *)
(* data by reference, so it shows their transactions as sorted in place.   *)
(***************************************************************************)
AllMap(d) == BuildAllMap(d, <<>>)

SortData(d) == [i \in 1..Len(d) |-> SortedRecord(d[i])]

\* A return that also lists every id of connectorNodeMap as a node.
NodesWithConnectorIds(nm) ==
  MapValues(nm) \o
    [i \in 1..Len(connectorNodeMap) |->
       [id |-> connectorNodeMap[i].key, group |-> "Connector", extra_info |-> NoStats]]

\* Line 260.
ResultNodes(nm) == MapValues(nm)

\* Lines 16-263 as one function of the array passed: what the call returns.
BuildGraph(d) ==
  LET a2m == BuildAccountToMain(d, <<>>)
      nm == BuildNodeMap(d, <<>>)
      am == AllMap(SortData(d))
      direct == DirectPass(am, a2m, nm).links
      cm == BuildConnectionMap(<<>>, ConnectorPass(am, a2m, nm), am)
  IN  [status |-> "returned", nodes |-> ResultNodes(nm),
       links |-> ConnectionLinks(direct, cm, am)]

\* Lines 21-55.
ResolveAndProject ==
  /\ pc = "start"
  /\ accountToMain' = BuildAccountToMain(data, <<>>)
  /\ nodeMap' = BuildNodeMap(data, <<>>)
  /\ data' = SortData(data)
  /\ pc' = "direct"
  /\ UNCHANGED <<input, links, directLinks, hiddenLinksMap, connectorNodeMap,
                 connectionMap, result, calls, firstResult, loaded>>

\* Lines 57-116.
DirectLinks ==
  /\ pc = "direct"
  /\ LET st == DirectPass(AllMap(data), accountToMain, nodeMap)
     IN  /\ links' = st.links
         /\ directLinks' = st.links
         /\ hiddenLinksMap' = st.hidden
  /\ pc' = "connectors"
  /\ UNCHANGED <<input, data, accountToMain, nodeMap, connectorNodeMap,
                 connectionMap, result, calls, firstResult, loaded>>

\* Lines 118-214.
DetectConnectors ==
  /\ pc = "connectors"
  /\ LET cnm == ConnectorPass(AllMap(data), accountToMain, nodeMap)
     IN  /\ connectorNodeMap' = cnm
         /\ connectionMap' = BuildConnectionMap(<<>>, cnm, AllMap(data))
  /\ pc' = "connections"
  /\ UNCHANGED <<input, data, accountToMain, nodeMap, links, directLinks,
                 hiddenLinksMap, result, calls, firstResult, loaded>>

\* Lines 216-262.
ConnectAndReturn ==
  /\ pc = "connections"
  /\ LET ls == ConnectionLinks(links, connectionMap, AllMap(data))
     IN  /\ links' = ls
         /\ result' = [status |-> "returned", nodes |-> ResultNodes(nodeMap), links |-> ls]
  /\ pc' = "done"
  /\ UNCHANGED <<input, data, accountToMain, nodeMap, directLinks, hiddenLinksMap,
                 connectorNodeMap, connectionMap, calls, firstResult, loaded>>

Next ==
  \/ ResolveAndProject
  \/ DirectLinks
  \/ DetectConnectors
  \/ ConnectAndReturn

\* The caller calls buildGraph again with the array it passed before; the
\* locals of lines 21-58 and 120-187 start empty again.
CallAgain ==
  /\ pc = "done"
  /\ calls < MaxCalls
  /\ calls' = calls + 1
  /\ firstResult' = IF calls = 1 THEN result ELSE firstResult
  /\ pc' = "start"
  /\ accountToMain' = <<>>
  /\ nodeMap' = <<>>
  /\ links' = <<>>
  /\ directLinks' = <<>>
  /\ hiddenLinksMap' = <<>>
  /\ connectorNodeMap' = <<>>
  /\ connectionMap' = <<>>
  /\ UNCHANGED <<input, data, result, loaded>>

\* The filter of the Graph component.
GraphFilter(d) == SelectSeq(d, LAMBDA r : r.ty # "Spammer")

\* The effect of the Graph component up to its call of buildGraph: it returns
\* when it holds no records, and calls buildGraph with the records whose ty
\* is not "Spammer" otherwise.
GraphRender ==
  /\ pc = "graph"
  /\ IF loaded = <<>>
     THEN pc' = "idle" /\ UNCHANGED <<input, data>>
     ELSE /\ input' = GraphFilter(loaded)
          /\ data' = GraphFilter(loaded)
          /\ pc' = "start"
  /\ UNCHANGED <<accountToMain, nodeMap, links, directLinks, hiddenLinksMap,
                 connectorNodeMap, connectionMap, result, calls, firstResult, loaded>>

NextGraph ==
  \/ GraphRender
  \/ ResolveAndProject
  \/ DirectLinks
  \/ DetectConnectors
  \/ ConnectAndReturn

NextRepeated ==
  \/ ResolveAndProject
  \/ DirectLinks
  \/ DetectConnectors
  \/ ConnectAndReturn
  \/ CallAgain

(***************************************************************************)
(* Inputs.  Account ids are unique across the records (the data model):    *)
(* "a", "b", "c" are record accounts, "p", "q" occur as extra accounts and *)
(* "e" is on no record.                                                    *)
(***************************************************************************)
Amounts == {DustThreshold - 1, DustThreshold}

Tx(op, f, t, amt, ts) ==
  [op_type |-> op, from |-> f, to |-> t, amount |-> amt, timestamp |-> ts]

\* Transfers from an id of froms to a different id of tos.
Transfers(froms, tos, amounts) ==
  {Tx("Transfer", ft[1], ft[2], amt, 1) :
     ft \in {x \in froms \X tos : x[1] # x[2]}, amt \in amounts}

\* Transfers between x and y, either way.
Between(x, y, amounts) ==
  Transfers({x}, {y}, amounts) \cup Transfers({y}, {x}, amounts)

\* The ways to give n records transaction lists of at most k transactions in all.
RECURSIVE TxAssignments(_, _, _)
TxAssignments(txs, n, k) ==
  IF n = 0 THEN {<<>>}
  ELSE UNION {{Append(rest, s) : rest \in TxAssignments(txs, n - 1, k - Len(s))} :
                s \in SeqsUpTo(txs, k)}

\* The orders in which n distinct accounts of accs can be listed.
RECURSIVE Orders(_, _)
Orders(accs, n) ==
  IF n = 0 THEN {<<>>}
  ELSE UNION {{Append(o, x) : x \in accs \ Range(o)} : o \in Orders(accs, n - 1)}

\* Records listed in the given order, their fields given by position.
MakeData(order, tys, exs, txss) ==
  [i \in 1..Len(order) |->
     [account |-> order[i], ty |-> tys[i], extra_accounts |-> exs[i],
      transactions |-> txss[i]]]

\* Records listed in the given order, their fields given by account.
Arrange(order, tys, txsOf) ==
  [i \in 1..Len(order) |->
     [account |-> order[i], ty |-> tys[order[i]], extra_accounts |-> <<>>,
      transactions |-> txsOf[order[i]]]]

Keep(cond, tx) == IF cond THEN <<tx>> ELSE <<>>

NoResult == [status |-> "running", nodes |-> <<>>, links |-> <<>>]

\* The state in which buildGraph is entered with d.
Start(d) ==
  /\ input = d
  /\ data = d
  /\ pc = "start"
  /\ accountToMain = <<>>
  /\ nodeMap = <<>>
  /\ links = <<>>
  /\ directLinks = <<>>
  /\ hiddenLinksMap = <<>>
  /\ connectorNodeMap = <<>>
  /\ connectionMap = <<>>
  /\ result = NoResult
  /\ calls = 1
  /\ firstResult = NoResult
  /\ loaded = d

\* Up to two records of any category, with at most MaxTxs transfers in all
\* among the two accounts and the untracked id.
PairInputs ==
  \E n \in 0..2 :
    \E o \in Orders({"a", "b"}, n) :
      \E tys \in [1..n -> Categories] :
        \E txss \in TxAssignments(Transfers({"a", "b", "e"}, {"a", "b", "e"}, Amounts),
                                  n, MaxTxs) :
          Start(MakeData(o, tys, [i \in 1..n |-> <<>>], txss))

\* Up to two records with extra accounts (shared ones and another record's
\* account id included), with fewer than MaxTxs transfers in all.
ExtraChoices == {<<>>, <<"p">>, <<"p", "q">>, <<"a">>, <<"b">>}

AliasInputs ==
  \E n \in 1..2 :
    \E o \in Orders({"a", "b"}, n) :
      \E tys \in [1..n -> {"Identified", "Defi"}] :
        \E exs \in [1..n -> ExtraChoices] :
          \E txss \in TxAssignments(Transfers({"a", "b", "p", "q", "e"},
                                              {"a", "b", "p", "q", "e"}, {DustThreshold}),
                                    n, MaxTxs - 1) :
            Start(MakeData(o, tys, exs, txss))

\* Three records: "a" and "b" each have one transfer with "c".
BridgeInputs ==
  \E o \in Orders(Accounts, 3) :
    \E tys \in [Accounts -> Categories] :
      \E t1 \in Between("a", "c", {DustThreshold}), s1 \in {"a", "c"} :
        \E t2 \in Between("b", "c", {DustThreshold}), s2 \in {"b", "c"} :
          Start(Arrange(o, tys,
                        [x \in Accounts |-> Keep(s1 = x, t1) \o Keep(s2 = x, t2)]))

\* Two records with a transfer between them and one transfer each with "e".
TriangleInputs ==
  \E o \in Orders({"a", "b"}, 2) :
    \E tys \in [{"a", "b"} -> Categories] :
      \E td \in Between("a", "b", Amounts), sd \in {"a", "b"}, first \in BOOLEAN :
        \E ta \in Between("a", "e", Amounts), tb \in Between("b", "e", Amounts) :
          Start(Arrange(o, tys,
                  [x \in {"a", "b"} |->
                     LET own == IF x = "a" THEN <<ta>> ELSE <<tb>>
                     IN  IF first THEN Keep(sd = x, td) \o own
                         ELSE own \o Keep(sd = x, td)]))

\* Three records, each with one transfer with "e".
SharedInputs ==
  \E o \in Orders(Accounts, 3) :
    \E tys \in [Accounts -> Categories] :
      \E out \in [Accounts -> BOOLEAN] :
        Start(Arrange(o, tys,
                [x \in Accounts |->
                   IF out[x] THEN <<Tx("Transfer", x, "e", DustThreshold, 1)>>
                   ELSE <<Tx("Transfer", "e", x, DustThreshold, 1)>>]))

\* Up to two records whose lists mix operation kinds and timestamps.
LedgerTxs ==
  {Tx("Transfer", ft[1], ft[2], DustThreshold, ts) :
     ft \in {<<"a", "b">>, <<"b", "a">>}, ts \in {1000000, 2000000}}
  \cup {Tx(op, "a", "b", DustThreshold, 1000000) : op \in {"Mint", "Burn", "Approve"}}

LedgerInputs ==
  \E n \in 1..2 :
    \E o \in Orders({"a", "b"}, n) :
      \E tys \in [1..n -> {"Identified", "Defi"}] :
        \E txss \in TxAssignments(LedgerTxs, n, MaxTxs) :
          Start(MakeData(o, tys, [i \in 1..n |-> <<>>], txss))

\* Up to two Identified records whose transfers, among the two accounts and the
\* untracked id, are listed in any order of their timestamps.
UnsortedTxs ==
  {Tx("Transfer", ft[1], ft[2], DustThreshold, ts) :
     ft \in {x \in {"a", "b", "e"} \X {"a", "b", "e"} : x[1] # x[2]},
     ts \in {1000000, 2000000}}

UnsortedInputs ==
  \E n \in 1..2 :
    \E o \in Orders({"a", "b"}, n) :
      \E tys \in [1..n -> {"Identified"}] :
        \E txss \in TxAssignments(UnsortedTxs, n, MaxTxs) :
          Start(MakeData(o, tys, [i \in 1..n |-> <<>>], txss))

\* The categories of the header comment (lines 4-12), and one outside them.
KnownCategories ==
  {"Defi", "Cex", "Foundation", "Spammer", "Identified", "NodeProvider",
   "Sns", "SnsParticipant", "Suspect"}

\* Two records of any category, an unknown one included, and one transfer of
\* 5 ICP between them, stored under the sender, the receiver or both.
SingleTransferInputs ==
  \E o \in Orders({"a", "b"}, 2) :
    \E tys \in [{"a", "b"} -> Categories \cup {"Whale"}] :
      \E t \in Between("a", "b", {500000000}), under \in (SUBSET {"a", "b"}) \ {{}} :
        Start(Arrange(o, tys, [x \in {"a", "b"} |-> Keep(x \in under, t)]))

\* Record "a" with the extra account "p" and record "b": a transfer between
\* the two mains, one between "a" and the untracked id and one between "b"
\* and the untracked id, where "a" takes part under either of its two ids.
AliasTriangleInputs ==
  \E o \in Orders({"a", "b"}, 2) :
    \E tys \in [{"a", "b"} -> {"Identified", "Cex", "Spammer"}] :
      \E x \in {"a", "p"}, y \in {"a", "p"}, sd \in {"a", "b"}, first \in BOOLEAN :
        \E td \in Between(x, "b", Amounts) :
          \E ta \in Between(y, "e", Amounts), tb \in Between("b", "e", Amounts) :
            Start([i \in 1..2 |->
                     [account |-> o[i], ty |-> tys[o[i]],
                      extra_accounts |-> IF o[i] = "a" THEN <<"p">> ELSE <<>>,
                      transactions |->
                        LET own == IF o[i] = "a" THEN <<ta>> ELSE <<tb>>
                        IN  IF first THEN Keep(sd = o[i], td) \o own
                            ELSE own \o Keep(sd = o[i], td)]])

\* Two Identified records, each with one transaction of any kind between
\* itself and the untracked id, and "a" with or without one more, of any
\* kind, to "b".
OpKinds == {"Transfer", "Mint", "Burn", "Approve"}

OpBridgeInputs ==
  \E o \in Orders({"a", "b"}, 2) :
    \E opa \in OpKinds, opb \in OpKinds :
      \E ea \in {<<"a", "e">>, <<"e", "a">>}, eb \in {<<"b", "e">>, <<"e", "b">>} :
        \E td \in {<<>>} \cup {<<Tx(op, "a", "b", DustThreshold, 1)>> : op \in OpKinds} :
          Start(Arrange(o, [x \in {"a", "b"} |-> "Identified"],
                  [x \in {"a", "b"} |->
                     IF x = "a" THEN <<Tx(opa, ea[1], ea[2], DustThreshold, 1)>> \o td
                     ELSE <<Tx(opb, eb[1], eb[2], DustThreshold, 1)>>]))

Init ==
  \/ PairInputs
  \/ AliasInputs
  \/ BridgeInputs
  \/ TriangleInputs
  \/ SharedInputs
  \/ LedgerInputs
  \/ SingleTransferInputs

Spec == Init /\ [][Next]_vars

\* The inputs of the properties of the operation kinds and of the nodes.
InitKinds ==
  \/ LedgerInputs
  \/ SingleTransferInputs
  \/ OpBridgeInputs

SpecKinds == InitKinds /\ [][Next]_vars

\* The inputs of the link properties.
InitLinks ==
  \/ PairInputs
  \/ BridgeInputs
  \/ TriangleInputs
  \/ SharedInputs
  \/ AliasTriangleInputs

SpecLinks == InitLinks /\ [][Next]_vars

\* The state in which the Graph component holds d and has not called yet.
GraphStart(d) ==
  /\ loaded = d
  /\ input = <<>>
  /\ data = <<>>
  /\ pc = "graph"
  /\ accountToMain = <<>>
  /\ nodeMap = <<>>
  /\ links = <<>>
  /\ directLinks = <<>>
  /\ hiddenLinksMap = <<>>
  /\ connectorNodeMap = <<>>
  /\ connectionMap = <<>>
  /\ result = NoResult
  /\ calls = 1
  /\ firstResult = NoResult

\* No records, or three records, Identified or Spammer, with one transfer
\* between "a" and "c" and one between "b" and "c", each stored under either
\* of its ends.
LoadedInputs ==
  \/ GraphStart(<<>>)
  \/ \E o \in Orders({"a", "b", "c"}, 3) :
       \E tys \in [{"a", "b", "c"} -> {"Identified", "Spammer"}] :
         \E ta \in Between("a", "c", Amounts), tb \in Between("b", "c", Amounts) :
           \E sa \in {"a", "c"}, sb \in {"b", "c"} :
             GraphStart(Arrange(o, tys,
                          [x \in {"a", "b", "c"} |->
                             Keep(sa = x, ta) \o Keep(sb = x, tb)]))

InitGraph == LoadedInputs

SpecGraph == InitGraph /\ [][NextGraph]_vars

\* The inputs of the repeated calls.
InitRepeated ==
  \/ TriangleInputs
  \/ LedgerInputs
  \/ UnsortedInputs
  \/ SingleTransferInputs

SpecRepeated == InitRepeated /\ [][NextRepeated]_vars

(***************************************************************************)
(* Vocabulary of the properties, read off the input records.               *)
(***************************************************************************)
RecordAccounts(d) == {d[i].account : i \in 1..Len(d)}

RecordOf(d, id) == d[CHOOSE i \in 1..Len(d) : d[i].account = id]

IsExchange(d, id) == id \in RecordAccounts(d) /\ RecordOf(d, id).ty = "Cex"
IsFoundation(d, id) == id \in RecordAccounts(d) /\ RecordOf(d, id).ty = "Foundation"
IsDeFi(d, id) == id \in RecordAccounts(d) /\ RecordOf(d, id).ty = "Defi"
IsSpamSuspect(d, id) == id \in RecordAccounts(d) /\ RecordOf(d, id).ty = "Spammer"
IsIdentified(d, id) == id \in RecordAccounts(d) /\ RecordOf(d, id).ty = "Identified"

\* The Transfer transactions of all records.
AllTransfers(d) ==
  {tx \in UNION {Range(d[i].transactions) : i \in 1..Len(d)} : tx.op_type = "Transfer"}

\* The ids some record lists as an extra account.
ExtraAccounts(d) == UNION {Range(d[i].extra_accounts) : i \in 1..Len(d)}

LinkPair(l) == {l.source, l.target}

Returned == pc = "done"

\* C1: the returned links hold at most one link per unordered pair of mains,
\* direct and connector links counted together (and so does the link list at
\* every point of the call).
AtMostOneLinkPerPair ==
  /\ \A i, j \in 1..Len(links) : i # j => LinkPair(links[i]) # LinkPair(links[j])
  /\ \A i, j \in 1..Len(result.links) :
       i # j => LinkPair(result.links[i]) # LinkPair(result.links[j])

\* C1 witness: a pair with a direct link also got connector evidence, and the
\* connector ids were attached to its one link.
DirectLinkGotConnectors ==
  /\ Returned
  /\ \E i \in 1..Len(directLinks), j \in 1..Len(result.links) :
       /\ LinkPair(directLinks[i]) = LinkPair(result.links[j])
       /\ result.links[j].connectors # <<>>

\* C2: no returned link joins a main to itself, and when every Transfer of the
\* input has both ends resolving to one main there is no link and no connector
\* evidence at all.
NoSelfLoops ==
  Returned =>
    /\ \A i \in 1..Len(result.links) : result.links[i].source # result.links[i].target
    /\ (\A tx \in AllTransfers(input) :
          /\ MapGet(accountToMain, tx.from) # None
          /\ MapGet(accountToMain, tx.from) = MapGet(accountToMain, tx.to))
       => result.links = <<>> /\ connectorNodeMap = <<>>

\* C2 witness: a Transfer between two different ids of one main was processed.
SameMainTransferSeen ==
  /\ Returned
  /\ \E tx \in AllTransfers(input) :
       /\ tx.from # tx.to
       /\ tx.from \notin RecordAccounts(input)
       /\ MapGet(accountToMain, tx.from) # None
       /\ MapGet(accountToMain, tx.from) = MapGet(accountToMain, tx.to)

\* C3: no returned link joins two Exchange mains or two Foundation mains.
NoExcludedCategoryLink ==
  Returned =>
    \A i \in 1..Len(result.links) :
      LET l == result.links[i]
      IN  /\ ~(IsExchange(input, l.source) /\ IsExchange(input, l.target))
          /\ ~(IsFoundation(input, l.source) /\ IsFoundation(input, l.target))

\* C3 witness: two Foundation records with a Transfer between them that also
\* share a connector, and no link came out.
ExcludedPairSeen ==
  /\ Returned
  /\ \E x, y \in RecordAccounts(input) :
       /\ x # y
       /\ IsFoundation(input, x) /\ IsFoundation(input, y)
       /\ \E tx \in AllTransfers(input) : tx.from = x /\ tx.to = y
       /\ MapHas(connectionMap, PairKey(x, y))
  /\ result.links = <<>>

\* C4: the returned nodes are exactly one node per record that is not
\* DeFiProtocol, with the record's account id, and no id twice.
NodesAreTheVisibleRecords ==
  Returned =>
    /\ \A i \in 1..Len(input) :
         ~IsDeFi(input, input[i].account) =>
           Cardinality({j \in 1..Len(result.nodes) :
                          result.nodes[j].id = input[i].account}) = 1
    /\ \A j \in 1..Len(result.nodes) :
         /\ result.nodes[j].id \in RecordAccounts(input)
         /\ ~IsDeFi(input, result.nodes[j].id)
         /\ result.nodes[j].group # "Defi"
    /\ \A j, k \in 1..Len(result.nodes) :
         j # k => result.nodes[j].id # result.nodes[k].id

\* C4 witness: an input with a DeFiProtocol record and two other records.
HiddenRecordSeen ==
  /\ Returned
  /\ \E x \in RecordAccounts(input) : IsDeFi(input, x)
  /\ Len(result.nodes) = 2

\* C5: two Identified records X and Y and a DeFiProtocol record Z with a
\* Transfer X->Z and a Transfer Z->Y give nodes X, Y and one link between X
\* and Y whose connector list is [Z].
DefiBridgeGivesConnectorLink ==
  Returned =>
    \A X, Y, Z \in RecordAccounts(input) :
      (/\ X # Y
       /\ RecordAccounts(input) = {X, Y, Z}
       /\ IsIdentified(input, X) /\ IsIdentified(input, Y) /\ IsDeFi(input, Z)
       /\ {<<tx.from, tx.to>> : tx \in AllTransfers(input)} = {<<X, Z>>, <<Z, Y>>})
      => /\ {result.nodes[j].id : j \in 1..Len(result.nodes)} = {X, Y}
         /\ Len(result.links) = 1
         /\ LinkPair(result.links[1]) = {X, Y}
         /\ result.links[1].connectors = <<Z>>

\* C6: a Transfer A->B and a Transfer B->A between two visible, non-excluded
\* mains (no dust, no extra accounts involved) give the link of {A, B}
\* direction Both.
OppositeTransfersGiveBoth ==
  Returned =>
    \A A, B \in RecordAccounts(input) :
      (/\ A # B
       /\ {A, B} \cap ExtraAccounts(input) = {}
       /\ ~IsDeFi(input, A) /\ ~IsDeFi(input, B)
       /\ ~(IsExchange(input, A) /\ IsExchange(input, B))
       /\ ~(IsFoundation(input, A) /\ IsFoundation(input, B))
       /\ \E tx \in AllTransfers(input) :
            tx.from = A /\ tx.to = B /\ tx.amount >= DustThreshold
       /\ \E tx \in AllTransfers(input) :
            tx.from = B /\ tx.to = A /\ tx.amount >= DustThreshold)
      => \E i \in 1..Len(result.links) :
           LinkPair(result.links[i]) = {A, B} /\ result.links[i].direction = BOTH

\* A Transfer below the dust threshold with a SpamSuspect main at either end.
IsSpamDust(d, a2m, tx) ==
  /\ tx.op_type = "Transfer"
  /\ tx.amount < DustThreshold
  /\ \/ IsSpamSuspect(d, MapGet(a2m, tx.from))
     \/ IsSpamSuspect(d, MapGet(a2m, tx.to))

WithoutSpamDust(d, a2m) ==
  [i \in 1..Len(d) |->
     [d[i] EXCEPT !.transactions =
        SelectSeq(d[i].transactions, LAMBDA tx : ~IsSpamDust(d, a2m, tx))]]

\* C7: Transfers below the dust threshold with a SpamSuspect main at either
\* end leave no trace in the direct pass: its links are those it builds with
\* these Transfers taken out of the input.
SpamDustLeavesNoDirectTrace ==
  pc \in {"connectors", "connections", "done"} =>
    directLinks =
      DirectPass(AllMap(WithoutSpamDust(data, accountToMain)), accountToMain, nodeMap).links

\* C8: a SpamSuspect main S is recorded as connector evidence for an untracked
\* id E exactly when some Transfer between S and E is at or above the dust
\* threshold.
SpamConnectorEvidenceByAmount ==
  pc \in {"connections", "done"} =>
    \A S \in RecordAccounts(input), E \in Ids :
      (IsSpamSuspect(input, S) /\ MapGet(accountToMain, E) = None) =>
        ((MapHas(connectorNodeMap, E) /\ S \in Range(MapGet(connectorNodeMap, E)))
           <=> \E tx \in AllTransfers(input) :
                 /\ tx.amount >= DustThreshold
                 /\ \/ MapGet(accountToMain, tx.from) = S /\ tx.to = E
                    \/ tx.from = E /\ MapGet(accountToMain, tx.to) = S)

\* No id is an extra account of two records.
ExtrasDisjoint(d) ==
  \A i, j \in 1..Len(d) :
    i # j => Range(d[i].extra_accounts) \cap Range(d[j].extra_accounts) = {}

\* C9: every record's account id resolves to itself, also when another record
\* lists it as an extra account; every other extra account resolves to the
\* record listing it; every other id resolves to none.
ResolutionIsCorrect ==
  (pc # "start" /\ ExtrasDisjoint(input)) =>
    /\ \A x \in RecordAccounts(input) : MapGet(accountToMain, x) = x
    /\ \A i \in 1..Len(input) :
         \A x \in Range(input[i].extra_accounts) \ RecordAccounts(input) :
           MapGet(accountToMain, x) = input[i].account
    /\ \A x \in Ids \ (RecordAccounts(input) \cup ExtraAccounts(input)) :
         MapGet(accountToMain, x) = None

\* Some id that is no record's account is an extra account of two records.
HasSharedAlias(d) ==
  \E i, j \in 1..Len(d) :
    /\ i # j
    /\ (Range(d[i].extra_accounts) \cap Range(d[j].extra_accounts))
         \ RecordAccounts(d) # {}

\* C10: an id listed as an extra account of two different records makes the
\* call fail instead of returning a graph.
SharedAliasIsRejected ==
  (Returned /\ HasSharedAlias(input)) => result.status = "failed"

\* C11: a record whose category is outside the known enumeration makes the
\* call fail instead of returning a graph.
UnknownCategoryIsRejected ==
  (Returned /\ \E i \in 1..Len(input) : input[i].ty \notin KnownCategories)
    => result.status = "failed"

\* The nodes and the links of a result as sets: a link is its unordered pair,
\* its direction and the set of its connector ids.
NodeSet(r) == Range(r.nodes)

LinkSet(r) ==
  {[pair |-> LinkPair(r.links[i]), direction |-> r.links[i].direction,
    connectors |-> Range(r.links[i].connectors)] : i \in 1..Len(r.links)}

\* C12: a second call on the record list the first call was given returns
\* the same node set and the same set of links (pairs, directions and
\* connector ids).
RepeatedCallSameGraph ==
  (Returned /\ calls > 1) =>
    /\ NodeSet(result) = NodeSet(firstResult)
    /\ LinkSet(result) = LinkSet(firstResult)

\* A second call has returned for records whose transactions the first call
\* found out of timestamp order and which gave a link.
RepeatedCallOnReorderedInput ==
  /\ Returned /\ calls > 1
  /\ data # input
  /\ result.links # <<>>
  /\ LinkSet(result) = LinkSet(firstResult)

\* C13: after the call every input record is as it was before the call, its
\* transaction sequence in the same order.
InputLeftUnchanged ==
  Returned => data = input

\* The transactions of all records, of any operation kind.
AllTransactions(d) == UNION {Range(d[i].transactions) : i \in 1..Len(d)}

\* C14: two Identified records X and Y without extra accounts and the single
\* Transfer X->Y of 5 ICP give the nodes X and Y and exactly one link, {X, Y}
\* with direction Send, under whichever of the two records it is stored.
SingleTransferGivesSend ==
  Returned =>
    \A X, Y \in RecordAccounts(input) :
      (/\ X # Y
       /\ RecordAccounts(input) = {X, Y}
       /\ IsIdentified(input, X) /\ IsIdentified(input, Y)
       /\ ExtraAccounts(input) = {}
       /\ AllTransactions(input) =
            {[op_type |-> "Transfer", from |-> X, to |-> Y,
              amount |-> 500000000, timestamp |-> 1]})
      => /\ {result.nodes[j].id : j \in 1..Len(result.nodes)} = {X, Y}
         /\ Len(result.links) = 1
         /\ LinkPair(result.links[1]) = {X, Y}
         /\ result.links[1].direction = SEND

\* The Transfer transactions of one record, in the order of its list.
TransfersOf(acc) == SelectSeq(acc.transactions, LAMBDA tx : tx.op_type = "Transfer")

\* C15: a node has no statistics exactly when its record has no Transfer
\* transaction.
StatsOmittedExactlyWithoutTransfers ==
  Returned =>
    \A j \in 1..Len(result.nodes) :
      LET n == result.nodes[j]
      IN  (n.extra_info = NoStats) <=> (TransfersOf(RecordOf(input, n.id)) = <<>>)

\* C16: the statistics of a node count and sum the Transfer transactions of
\* its record and no others.
StatsCountTransfersOnly ==
  Returned =>
    \A j \in 1..Len(result.nodes) :
      LET n == result.nodes[j]
          transfers == TransfersOf(RecordOf(input, n.id))
      IN  (n.extra_info # NoStats /\ transfers # <<>>) =>
            /\ n.extra_info.tx_count = Len(transfers)
            /\ n.extra_info.total = SumAmounts(transfers)

\* C17: the call always returns; with no records it returns no nodes and no
\* links, and with records that hold no Transfer it returns no links.
EmptyInputIsNoError ==
  Returned =>
    /\ result.status = "returned"
    /\ input = <<>> => (result.nodes = <<>> /\ result.links = <<>>)
    /\ AllTransfers(input) = {} => result.links = <<>>

\* The call has returned for records that hold transactions but no Transfer.
ReturnedWithoutTransfers ==
  /\ Returned
  /\ AllTransactions(input) # {}
  /\ AllTransfers(input) = {}
  /\ result.status = "returned"
  /\ result.nodes # <<>>
  /\ result.links = <<>>

\* Every extra account belongs to one record and is no record's account id.
WellFormedAliases(d) ==
  ExtrasDisjoint(d) /\ ExtraAccounts(d) \cap RecordAccounts(d) = {}

\* The main an id stands for: a record's account id stands for itself, an
\* extra account for the record listing it, any other id for none.
MainOf(d, x) ==
  IF x \in RecordAccounts(d) THEN x
  ELSE IF \E i \in 1..Len(d) : x \in Range(d[i].extra_accounts)
       THEN d[CHOOSE i \in 1..Len(d) : x \in Range(d[i].extra_accounts)].account
       ELSE None

Untracked(d, x) == MainOf(d, x) = None

SameCategoryExcluded(d, A, B) ==
  \/ IsExchange(d, A) /\ IsExchange(d, B)
  \/ IsFoundation(d, A) /\ IsFoundation(d, B)

\* Some Transfer runs between an id of main A and the untracked id E.
TransferWith(d, A, E) ==
  \E tx \in AllTransfers(d) :
    \/ MainOf(d, tx.from) = A /\ tx.to = E
    \/ tx.from = E /\ MainOf(d, tx.to) = A

\* Distinct visible mains A and B, neither a SpamSuspect and not both
\* Exchange or both Foundation.
BridgeablePair(d, A, B) ==
  /\ A \in RecordAccounts(d) /\ B \in RecordAccounts(d) /\ A # B
  /\ ~IsDeFi(d, A) /\ ~IsDeFi(d, B)
  /\ ~IsSpamSuspect(d, A) /\ ~IsSpamSuspect(d, B)
  /\ ~SameCategoryExcluded(d, A, B)

\* Untracked id E bridges the pair of A and B.
Bridges(d, E, A, B) ==
  /\ BridgeablePair(d, A, B)
  /\ Untracked(d, E)
  /\ TransferWith(d, A, E) /\ TransferWith(d, B, E)

\* C18: every untracked id that bridges two distinct visible mains, neither a
\* SpamSuspect and not both Exchange or both Foundation, is a connector of
\* the returned link of the pair, with or without a direct link of the pair.
ConnectorCompleteness ==
  (Returned /\ WellFormedAliases(input)) =>
    \A a, b \in 1..Len(input) :
      (a < b /\ BridgeablePair(input, input[a].account, input[b].account)) =>
        \A E \in Ids :
          Bridges(input, E, input[a].account, input[b].account) =>
            \E i \in 1..Len(result.links) :
              /\ LinkPair(result.links[i]) = {input[a].account, input[b].account}
              /\ E \in Range(result.links[i].connectors)

\* A bridged pair that has a direct link as well.
BridgeOverDirectLink ==
  /\ Returned
  /\ \E E \in Ids, A, B \in RecordAccounts(input) :
       /\ Bridges(input, E, A, B)
       /\ \E i \in 1..Len(directLinks) : LinkPair(directLinks[i]) = {A, B}
       /\ \E i \in 1..Len(result.links) :
            /\ LinkPair(result.links[i]) = {A, B}
            /\ E \in Range(result.links[i].connectors)

\* The qualifying Transfers of the pair {A, B}, each with the record it is
\* stored under: Transfers between the two mains that are neither DeFi nor
\* an excluded pair, dust sent by a SpamSuspect main left out.
Qualifying(d, A, B) ==
  {ij \in UNION {{<<i, j>> : j \in 1..Len(d[i].transactions)} : i \in 1..Len(d)} :
     LET tx == d[ij[1]].transactions[ij[2]]
         fromMain == MainOf(d, tx.from)
         toMain == MainOf(d, tx.to)
     IN  /\ tx.op_type = "Transfer"
         /\ {fromMain, toMain} = {A, B}
         /\ ~IsDeFi(d, A) /\ ~IsDeFi(d, B)
         /\ ~SameCategoryExcluded(d, A, B)
         /\ ~(IsSpamSuspect(d, fromMain) /\ tx.amount < DustThreshold)}

\* The Transfer is stored under the record of its sender's main.
StoredUnderSender(d, ij) ==
  d[ij[1]].account = MainOf(d, d[ij[1]].transactions[ij[2]].from)

DirectionByStorage(d, A, B) ==
  LET q == Qualifying(d, A, B)
  IN  IF \A ij \in q : StoredUnderSender(d, ij) THEN SEND
      ELSE IF \A ij \in q : ~StoredUnderSender(d, ij) THEN RECEIVE
      ELSE BOTH

\* C19: the direct link of a pair {A, B} has direction Send when every
\* qualifying Transfer of the pair is stored under the record of its sender's
\* main, Receive when none is and Both otherwise, and the returned link of
\* the pair keeps that direction.
DirectionDependsOnStorage ==
  (Returned /\ WellFormedAliases(input)) =>
    \A a, b \in 1..Len(input) :
      a < b =>
        LET A == input[a].account
            B == input[b].account
        IN  /\ (\E i \in 1..Len(directLinks) : LinkPair(directLinks[i]) = {A, B})
                 <=> Qualifying(input, A, B) # {}
            /\ \A i \in 1..Len(directLinks) :
                 LinkPair(directLinks[i]) = {A, B} =>
                   directLinks[i].direction = DirectionByStorage(input, A, B)
            /\ \A i \in 1..Len(directLinks), j \in 1..Len(result.links) :
                 (LinkPair(directLinks[i]) = {A, B} /\ LinkPair(result.links[j]) = {A, B})
                   => result.links[j].direction = directLinks[i].direction

\* Opposite Transfers, each stored only under its own sender, gave Send.
OppositeTransfersUnderSendersGiveSend ==
  /\ Returned
  /\ \E A, B \in RecordAccounts(input) :
       /\ A # B
       /\ \E tx \in Range(RecordOf(input, A).transactions) : tx.from = A /\ tx.to = B
       /\ \E tx \in Range(RecordOf(input, B).transactions) : tx.from = B /\ tx.to = A
       /\ \A ij \in Qualifying(input, A, B) : StoredUnderSender(input, ij)
       /\ \E i \in 1..Len(result.links) :
            LinkPair(result.links[i]) = {A, B} /\ result.links[i].direction = SEND

\* The Transfers between the mains A and B.
TransfersBetween(d, A, B) ==
  {tx \in AllTransfers(d) : {MainOf(d, tx.from), MainOf(d, tx.to)} = {A, B}}

\* C20: a Transfer of at least the dust threshold, one of exactly 10,000,000
\* included, between a SpamSuspect main and another tracked main that is not
\* DeFi gives the pair a direct link; when every Transfer of the pair is sent
\* by the SpamSuspect main with less than the threshold, the pair has none.
DustThresholdBoundary ==
  (Returned /\ WellFormedAliases(input)) =>
    \A A, B \in RecordAccounts(input) :
      (A # B /\ IsSpamSuspect(input, A) /\ ~IsDeFi(input, B)) =>
        LET between == TransfersBetween(input, A, B)
            linked == \E i \in 1..Len(directLinks) : LinkPair(directLinks[i]) = {A, B}
        IN  /\ (\E tx \in between : tx.amount >= DustThreshold) => linked
            /\ (/\ between # {}
                /\ \A tx \in between :
                     MainOf(input, tx.from) = A /\ tx.amount < DustThreshold)
                 => ~linked

\* A SpamSuspect main sent exactly the threshold amount and the pair is linked.
SpamTransferAtThresholdLinked ==
  /\ Returned
  /\ \E A, B \in RecordAccounts(input) :
       /\ A # B /\ IsSpamSuspect(input, A) /\ IsIdentified(input, B)
       /\ TransfersBetween(input, A, B) # {}
       /\ \A tx \in TransfersBetween(input, A, B) :
            tx.from = A /\ tx.amount = DustThreshold
       /\ \E i \in 1..Len(directLinks) : LinkPair(directLinks[i]) = {A, B}

\* C21: every connector id of a returned link is untracked (no record's
\* account id and no record's extra account), and each of the link's two
\* mains has a Transfer whose other end is that id.
ConnectorSoundness ==
  Returned =>
    \A i \in 1..Len(result.links) :
      \A E \in Range(result.links[i].connectors) :
        /\ E \notin RecordAccounts(input) \cup ExtraAccounts(input)
        /\ WellFormedAliases(input) =>
             /\ TransferWith(input, result.links[i].source, E)
             /\ TransferWith(input, result.links[i].target, E)

\* A returned link has a connector that one of its mains reached only
\* through an extra account.
ConnectorReachedThroughAlias ==
  /\ Returned
  /\ WellFormedAliases(input)
  /\ \E i \in 1..Len(result.links) :
       \E E \in Range(result.links[i].connectors) :
         LET A == result.links[i].source
         IN  /\ Untracked(input, E)
             /\ TransferWith(input, A, E)
             /\ TransferWith(input, result.links[i].target, E)
             /\ ~\E tx \in AllTransfers(input) : {tx.from, tx.to} = {A, E}

\* C22: the returned links begin with the links of the direct pass, each
\* with its source, target and direction as the direct pass left them (only
\* the connector list may differ), and every link after them has direction
\* Send.
ConnectorPassKeepsDirectLinks ==
  Returned =>
    /\ Len(result.links) >= Len(directLinks)
    /\ \A i \in 1..Len(directLinks) :
         /\ result.links[i].source = directLinks[i].source
         /\ result.links[i].target = directLinks[i].target
         /\ result.links[i].direction = directLinks[i].direction
    /\ \A i \in (Len(directLinks) + 1)..Len(result.links) :
         result.links[i].direction = SEND

\* A link the direct pass left with direction Receive got connectors.
ReceiveLinkGotConnectors ==
  /\ Returned
  /\ \E i \in 1..Len(directLinks) :
       /\ directLinks[i].direction = RECEIVE
       /\ directLinks[i].connectors = <<>>
       /\ result.links[i].connectors # <<>>
       /\ result.links[i].direction = RECEIVE

\* The mains that have a Transfer with the id E.
MainsWith(d, E) == {A \in RecordAccounts(d) : TransferWith(d, A, E)}

\* C23: no returned link lists a connector id twice, every link the
\* connector pass creates carries a non-empty connector list, and an
\* untracked id that has Transfers with one main only is a connector of no
\* link.  (A link without a connectors property is one with the empty list.)
ConnectorListsAreSets ==
  Returned =>
    /\ \A i \in 1..Len(result.links) :
         Cardinality(Range(result.links[i].connectors)) = Len(result.links[i].connectors)
    /\ \A i \in (Len(directLinks) + 1)..Len(result.links) :
         result.links[i].connectors # <<>>
    /\ WellFormedAliases(input) =>
         \A E \in Ids :
           (Untracked(input, E) /\ Cardinality(MainsWith(input, E)) <= 1) =>
             \A i \in 1..Len(result.links) : E \notin Range(result.links[i].connectors)

\* An id was seen with main "b" before main "a", and the link of the pair
\* lists it once.
PairKeyedAgainstObservationOrder ==
  /\ Returned
  /\ \E k \in 1..Len(connectorNodeMap) :
       /\ connectorNodeMap[k].value = <<"b", "a">>
       /\ \E i \in 1..Len(result.links) :
            /\ LinkPair(result.links[i]) = {"a", "b"}
            /\ result.links[i].connectors = <<connectorNodeMap[k].key>>

\* A Transfer between two distinct mains of which at least one is DeFi.
IsDefiTransfer(d, tx) ==
  /\ tx.op_type = "Transfer"
  /\ MainOf(d, tx.from) # None /\ MainOf(d, tx.to) # None
  /\ MainOf(d, tx.from) # MainOf(d, tx.to)
  /\ IsDeFi(d, MainOf(d, tx.from)) \/ IsDeFi(d, MainOf(d, tx.to))

\* The stored transactions, as (record, position), that are such Transfers
\* with the main M at one end.
DefiTransfersOf(d, M) ==
  {ij \in UNION {{<<i, j>> : j \in 1..Len(d[i].transactions)} : i \in 1..Len(d)} :
     LET tx == d[ij[1]].transactions[ij[2]]
     IN  IsDefiTransfer(d, tx) /\ M \in {MainOf(d, tx.from), MainOf(d, tx.to)}}

WithoutDefiTransfers(d) ==
  [i \in 1..Len(d) |->
     [d[i] EXCEPT !.transactions =
        SelectSeq(d[i].transactions, LAMBDA tx : ~IsDefiTransfer(d, tx))]]

\* C24: Transfers with a DeFi main at an end leave the links of the direct
\* pass as they are without them, and no link has a DeFi end; the hidden
\* bucket of a main that is not DeFi holds one entry, with the resolved ends,
\* for each such stored Transfer the main takes part in, and a DeFi main has
\* no bucket.
DefiTransfersAreHidden ==
  (Returned /\ WellFormedAliases(input)) =>
    /\ directLinks =
         DirectPass(AllMap(WithoutDefiTransfers(data)), accountToMain, nodeMap).links
    /\ \A i \in 1..Len(result.links) :
         ~IsDeFi(input, result.links[i].source) /\ ~IsDeFi(input, result.links[i].target)
    /\ \A k \in 1..Len(hiddenLinksMap) :
         /\ hiddenLinksMap[k].key \in RecordAccounts(input)
         /\ ~IsDeFi(input, hiddenLinksMap[k].key)
    /\ \A M \in RecordAccounts(input) :
         ~IsDeFi(input, M) =>
           LET bucket == IF MapHas(hiddenLinksMap, M) THEN MapGet(hiddenLinksMap, M) ELSE <<>>
               stored == DefiTransfersOf(input, M)
           IN  /\ Len(bucket) = Cardinality(stored)
               /\ {<<bucket[n].source, bucket[n].target>> : n \in 1..Len(bucket)} =
                    {<<MainOf(input, input[ij[1]].transactions[ij[2]].from),
                       MainOf(input, input[ij[1]].transactions[ij[2]].to)>> : ij \in stored}

\* A Transfer from a DeFi main to a main that is not DeFi is in the bucket of
\* the receiving main and gave no link.
DefiTransferInReceiverBucket ==
  /\ Returned
  /\ result.links = <<>>
  /\ \E k \in 1..Len(hiddenLinksMap) :
       /\ ~IsDeFi(input, hiddenLinksMap[k].key)
       /\ \E n \in 1..Len(hiddenLinksMap[k].value) :
            /\ hiddenLinksMap[k].value[n].target = hiddenLinksMap[k].key
            /\ IsDeFi(input, hiddenLinksMap[k].value[n].source)

\* The records with every transaction that is not a Transfer taken out.
TransfersOnly(d) == [i \in 1..Len(d) |-> [d[i] EXCEPT !.transactions = TransfersOf(d[i])]]

\* C25: the call returns, and the connector evidence and the returned link
\* list are those of the input with every Mint, Burn and Approve transaction
\* taken out.
NonTransfersLeaveLinksAlone ==
  Returned =>
    /\ result.status = "returned"
    /\ connectorNodeMap =
         ConnectorPass(AllMap(TransfersOnly(data)), accountToMain, nodeMap)
    /\ result.links = BuildGraph(TransfersOnly(input)).links

\* Both records have a transaction with the untracked id and "a" has one to
\* "b", none of them a Transfer, and no link and no connector evidence came
\* of them.
NonTransfersAroundBridgeIgnored ==
  /\ Returned
  /\ AllTransfers(input) = {}
  /\ \E t1, t2, t3 \in AllTransactions(input) :
       /\ {t1.from, t1.to} = {"a", "e"}
       /\ {t2.from, t2.to} = {"b", "e"}
       /\ {t3.from, t3.to} = {"a", "b"}
  /\ connectorNodeMap = <<>>
  /\ result.links = <<>>

\* C26: from the node projection on, nodeMap is what the projection makes of
\* the input, and the returned node list is its values: one node per record
\* that is not DeFi, none for an id of the connector evidence.
NodesComeFromProjection ==
  /\ pc \in {"direct", "connectors", "connections", "done"} =>
       nodeMap = BuildNodeMap(input, <<>>)
  /\ Returned =>
       /\ result.nodes = MapValues(nodeMap)
       /\ \A j \in 1..Len(result.nodes) :
            /\ result.nodes[j].id \in RecordAccounts(input)
            /\ ~MapHas(connectorNodeMap, result.nodes[j].id)

\* The call returned a link made of connector evidence, and the nodes are
\* the two records.
ConnectorLinkAddedNoNode ==
  /\ Returned
  /\ connectorNodeMap # <<>>
  /\ Len(result.links) > Len(directLinks)
  /\ {result.nodes[j].id : j \in 1..Len(result.nodes)} = {"a", "b"}
  /\ Len(result.nodes) = 2

\* The orders of a list: the permutations of its positions.
Shuffles(n) == {f \in [1..n -> 1..n] : \A i, j \in 1..n : f[i] = f[j] => i = j}

Shuffled(s, f) == [i \in 1..Len(s) |-> s[f[i]]]

\* The lists of the records of d with the transactions of each record in any
\* order, the records in the order of d.
RECURSIVE TransactionOrders(_)
TransactionOrders(d) ==
  IF d = <<>> THEN {<<>>}
  ELSE {<<[Head(d) EXCEPT !.transactions = Shuffled(Head(d).transactions, f)]>> \o rest :
          f \in Shuffles(Len(Head(d).transactions)), rest \in TransactionOrders(Tail(d))}

\* Every order of the records and of the transactions inside each record.
Reorderings(d) ==
  {Shuffled(d2, f) : f \in Shuffles(Len(d)), d2 \in TransactionOrders(d)}

\* C27: for inputs whose extra-account lists are disjoint, the returned set
\* of links, as (unordered pair, direction, set of connector ids), is the same
\* for every order of the records and every order of the transactions inside
\* each record.
LinksIndependentOfOrder ==
  (Returned /\ ExtrasDisjoint(input)) =>
    \A d2 \in Reorderings(input) : LinkSet(BuildGraph(d2)) = LinkSet(result)

\* The same with the premise that no extra account is a record's account id.
LinksIndependentOfOrderWellFormed ==
  (Returned /\ WellFormedAliases(input)) =>
    \A d2 \in Reorderings(input) : LinkSet(BuildGraph(d2)) = LinkSet(result)

NodeIds(r) == {r.nodes[j].id : j \in 1..Len(r.nodes)}

\* C28: the source and the target of every returned link are ids of returned
\* nodes, hence account ids of records that are not DeFi.
NoDanglingLinks ==
  Returned =>
    \A i \in 1..Len(result.links) :
      /\ result.links[i].source \in NodeIds(result)
      /\ result.links[i].target \in NodeIds(result)
      /\ ~IsDeFi(input, result.links[i].source)
      /\ ~IsDeFi(input, result.links[i].target)

\* A Transfer sent from an extra account gave a link whose ends are the
\* nodes of the two mains.
AliasTransferLinksMains ==
  /\ Returned
  /\ WellFormedAliases(input)
  /\ \E tx \in AllTransfers(input) :
       /\ tx.from \in ExtraAccounts(input)
       /\ tx.from \notin NodeIds(result)
       /\ \E i \in 1..Len(result.links) :
            /\ result.links[i].source = MainOf(input, tx.from)
            /\ result.links[i].target = tx.to
            /\ LinkPair(result.links[i]) \subseteq NodeIds(result)

\* The account ids of the records the Graph component holds with ty Spammer.
LoadedSpammers == {loaded[k].account : k \in {n \in 1..Len(loaded) : loaded[n].ty = "Spammer"}}

\* C29: in the graph the Graph component builds, no link lists the account
\* id of a loaded Spammer record as a connector.
SpammerIdsAreNoConnectors ==
  Returned =>
    \A i \in 1..Len(result.links) :
      Range(result.links[i].connectors) \cap LoadedSpammers = {}

====
